---- MODULE Spec2Model ----
(***************************************************************************)
(* Vocabulary extension and checkpoint resizing of rxn-onmt-utils.         *)
(*                                                                         *)
(* One ModelResizer session is modelled.  The repository holds two         *)
(* versions of model_resize.py: the packaged module                        *)
(* src/rxn/onmt_utils/model_resize.py ("rxn.onmt_utils") and the older     *)
(* rxn_onmt_utils/model_resize.py ("rxn_onmt_utils").  The variable        *)
(* `module` says which of the two the session was created from.            *)
(*                                                                         *)
(* Numbers stand for floating point values in tenths (1 is 0.1).           *)
(***************************************************************************)
EXTENDS Integers, Sequences, FiniteSets, TLC

VARIABLES
    module,      \* which model_resize.py the session runs
    heap,        \* the torchtext Vocab objects, by object identity
    vocab,       \* self.vocab: field name -> identity of its Vocab object
    model,       \* self.model: encoder/decoder embeddings, generator, the rest
    model_opt,   \* self.model_opt
    checkpoint,  \* self.checkpoint, the record loaded at construction
    files,       \* the file system: path -> checkpoint record
    calls,       \* number of extend_vocab calls made so far
    saves,       \* number of save_checkpoint calls made so far
    strips,      \* number of strip_model calls made so far
    last,        \* what the last call was given, did and returned
    train        \* the OnmtTrainCommand object and what cmd() returned

vars == <<module, heap, vocab, model, model_opt, checkpoint, files, calls, saves,
          strips, last, train>>

----------------------------------------------------------------------------
(* Bounds *)

\* most tokens a secondary vocabulary file lists, over its fields
MaxCandLen == 2
\* extend_vocab calls per session
MaxCalls == 2
\* save_checkpoint calls per session
MaxSaves == 1

\* strip_model calls explored
MaxStrips == 2
\* columns of the embedding matrices and of the generator weight
EmbDim == 2

----------------------------------------------------------------------------
(* Domains of the inputs *)

Modules == {"rxn.onmt_utils", "rxn_onmt_utils"}

\* tokens a secondary vocabulary may list
CandTokens == {"b", "c"}

\* the ways the pseudo-random draws (and the stale bytes of an allocation
\* that is never written) can fall: all at the low end, or alternating
Patterns == {"lo", "alt"}

Paths == {"model.pt", "resized.pt"}

Range(s) == {s[i] : i \in 1..Len(s)}

SeqsUpTo(S, n) == UNION {[1..k -> S] : k \in 0..n}

\* the number of tokens a vocab.pt file lists, over the fields it has
Listed(nv) ==
    (IF "src" \in DOMAIN nv THEN Len(nv["src"]) ELSE 0)
    + (IF "tgt" \in DOMAIN nv THEN Len(nv["tgt"]) ELSE 0)

\* the vocabulary file that lists, for each field, the tokens the session's
\* own field holds
OwnVocab(h, refs) == [f \in {"src", "tgt"} |-> h[refs[f]].itos]

\* a vocab.pt file: field name -> token list; a field may be missing
NewVocabs ==
    {nv \in UNION {[F -> SeqsUpTo(CandTokens, MaxCandLen)] :
                      F \in SUBSET {"src", "tgt"}} : Listed(nv) <= MaxCandLen}

----------------------------------------------------------------------------
(* torchtext Vocab: itos, and stoi with 0-based indices *)

MakeVocab(itos) ==
    [itos |-> itos,
     stoi |-> [t \in Range(itos) |-> (CHOOSE i \in 1..Len(itos) : itos[i] = t) - 1]]

\* len(vocab) is the length of itos
VocabLen(v) == Len(v.itos)

----------------------------------------------------------------------------
(* Tensors.  A parameter tensor is [dim, cols, data, assigned]: data is a  *)
(* sequence of rows (dim 2) or of values (dim 1); assigned says whether    *)
(* some initialisation wrote the entries after the allocation.             *)

Pick(lo, hi, pat, k) == IF pat = "lo" \/ k % 2 = 0 THEN lo ELSE hi

Fill(p, lo, hi, pat) ==
    [p EXCEPT
        !.data = IF p.dim = 1
                 THEN [i \in 1..Len(p.data) |-> Pick(lo, hi, pat, i)]
                 ELSE [i \in 1..Len(p.data) |->
                          [j \in 1..p.cols |-> Pick(lo, hi, pat, i + j)]],
        !.assigned = TRUE]

\* torch.Tensor(n, d): an allocation whose entries are whatever the memory
\* held, here zeroed pages or stale bytes
Tensor(n, d, pat) ==
    [dim |-> 2, cols |-> d,
     data |-> [i \in 1..n |-> [j \in 1..d |-> Pick(0, 9999, pat, i + j)]],
     assigned |-> FALSE]

\* torch.Tensor(n)
Tensor1(n, pat) ==
    [dim |-> 1, cols |-> 0,
     data |-> [i \in 1..n |-> Pick(0, 9999, pat, i)],
     assigned |-> FALSE]

\* Tensor.uniform_(-a, a)
uniform_(p, a, pat) == Fill(p, 0 - a, a, pat)

\* the bound sqrt(6 / (fan_in + fan_out)) of xavier_uniform_, in tenths
XavierBound(fan_in, fan_out) ==
    LET x == 600 \div (fan_in + fan_out)
    IN  CHOOSE k \in 0..25 : k * k <= x /\ x < (k + 1) * (k + 1)

\* torch.nn.init.xavier_uniform_ on a tensor of shape (rows, cols)
xavier_uniform_(p, pat) ==
    LET a == XavierBound(p.cols, Len(p.data)) IN Fill(p, 0 - a, a, pat)

\* Tensor.zero_()
zero_(p) == Fill(p, 0, 0, "lo")

\* init_parameters without the branch that zeroes a 1-dimensional tensor
init_parameters_nozero(opt, parameters, pat) ==
    LET p1 == IF opt.param_init # 0
              THEN uniform_(parameters, opt.param_init, pat)
              ELSE parameters
    IN  IF opt.param_init_glorot /\ p1.dim > 1
        THEN xavier_uniform_(p1, pat)
        ELSE p1

\* init_parameters of rxn.onmt_utils
init_parameters(opt, parameters, pat) ==
    LET p1 == IF opt.param_init # 0
              THEN uniform_(parameters, opt.param_init, pat)
              ELSE parameters
        p2 == IF opt.param_init_glorot /\ p1.dim > 1
              THEN xavier_uniform_(p1, pat)
              ELSE p1
    IN  IF opt.param_init_glorot /\ p2.dim = 1 THEN zero_(p2) ELSE p2

\* init_parameters of rxn_onmt_utils: no branch for 1-dimensional tensors
init_parameters_legacy(opt, parameters, pat) ==
    LET p1 == IF opt.param_init # 0
              THEN uniform_(parameters, opt.param_init, pat)
              ELSE parameters
    IN  IF opt.param_init_glorot /\ p1.dim > 1
        THEN xavier_uniform_(p1, pat)
        ELSE p1

InitParametersOf(mod, opt, parameters, pat) ==
    IF mod = "rxn.onmt_utils"
    THEN init_parameters(opt, parameters, pat)
    ELSE init_parameters_legacy(opt, parameters, pat)

----------------------------------------------------------------------------
(* The steps of extend_vocab.  Each step takes and returns the session     *)
(* record s = [heap, model, raised, ...]; once s.raised names an exception *)
(* the remaining steps are skipped, as the exception leaves extend_vocab.  *)

RECURSIVE ExtendLoop_snapshot(_, _, _, _)
\* the loop with membership tested against the field as it was on entry
ExtendLoop_snapshot(v, added_tokens, cand, i) ==
    IF i > Len(cand) THEN [vocab |-> v, added_tokens |-> added_tokens]
    ELSE LET t == cand[i] IN
         IF t \notin (DOMAIN v.stoi \ Range(added_tokens))
         THEN LET itos == Append(v.itos, t)
                  stoi == [x \in DOMAIN v.stoi \cup {t} |->
                              IF x = t THEN Len(itos) - 1 ELSE v.stoi[x]]
              IN  ExtendLoop_snapshot([itos |-> itos, stoi |-> stoi],
                                      Append(added_tokens, t), cand, i + 1)
         ELSE ExtendLoop_snapshot(v, added_tokens, cand, i + 1)

RECURSIVE ExtendLoop_offbyone(_, _, _, _)
\* the loop with the new index taken as len(itos) instead of len(itos) - 1
ExtendLoop_offbyone(v, added_tokens, cand, i) ==
    IF i > Len(cand) THEN [vocab |-> v, added_tokens |-> added_tokens]
    ELSE LET t == cand[i] IN
         IF t \notin DOMAIN v.stoi
         THEN LET itos == Append(v.itos, t)
                  stoi == [x \in DOMAIN v.stoi \cup {t} |->
                              IF x = t THEN Len(itos) ELSE v.stoi[x]]
              IN  ExtendLoop_offbyone([itos |-> itos, stoi |-> stoi],
                                      Append(added_tokens, t), cand, i + 1)
         ELSE ExtendLoop_offbyone(v, added_tokens, cand, i + 1)

RECURSIVE ExtendLoop_falsy(_, _, _, _)
\* the loop taking a token of index 0 for an absent one
ExtendLoop_falsy(v, added_tokens, cand, i) ==
    IF i > Len(cand) THEN [vocab |-> v, added_tokens |-> added_tokens]
    ELSE LET t == cand[i] IN
         IF t \notin {x \in DOMAIN v.stoi : v.stoi[x] # 0}
         THEN LET itos == Append(v.itos, t)
                  stoi == [x \in DOMAIN v.stoi \cup {t} |->
                              IF x = t THEN Len(itos) - 1 ELSE v.stoi[x]]
              IN  ExtendLoop_falsy([itos |-> itos, stoi |-> stoi],
                                   Append(added_tokens, t), cand, i + 1)
         ELSE ExtendLoop_falsy(v, added_tokens, cand, i + 1)

RECURSIVE ExtendLoop(_, _, _, _)
\* the for loop of _extend_field_vocab from the i-th candidate token on
ExtendLoop(v, added_tokens, cand, i) ==
    IF i > Len(cand) THEN [vocab |-> v, added_tokens |-> added_tokens]
    ELSE LET t == cand[i] IN
         IF t \notin DOMAIN v.stoi
         THEN LET itos == Append(v.itos, t)
                  stoi == [x \in DOMAIN v.stoi \cup {t} |->
                              IF x = t THEN Len(itos) - 1 ELSE v.stoi[x]]
              IN  ExtendLoop([itos |-> itos, stoi |-> stoi],
                             Append(added_tokens, t), cand, i + 1)
         ELSE ExtendLoop(v, added_tokens, cand, i + 1)

\* _extend_field_vocab: mutates the Vocab object of the field, returns the
\* added tokens (recorded in s.added); new_vocab[field] raises KeyError
_extend_field_vocab(s, refs, new_vocab, field) ==
    IF s.raised # "none" THEN s
    ELSE IF field \notin DOMAIN new_vocab THEN [s EXCEPT !.raised = "KeyError"]
    ELSE LET r == ExtendLoop(s.heap[refs[field]], <<>>, new_vocab[field], 1)
         IN  [s EXCEPT !.heap[refs[field]] = r.vocab,
                       !.added[field] = r.added_tokens,
                       !.merged = @ \cup {field},
                       !.heap_at[field] = s.heap]

\* _resize_embedding with the extension concatenated in front of the old rows
_resize_embedding_prepend(mod, opt, old_embeddings, num_added_tokens, pat) ==
    LET weight_extension ==
            InitParametersOf(mod, opt,
                Tensor(num_added_tokens, old_embeddings.embedding_dim, pat), pat)
        new_weights == weight_extension.data \o old_embeddings.weight
    IN  [raised |-> IF num_added_tokens < 0 THEN "RuntimeError" ELSE "none",
         emb |-> [old_embeddings EXCEPT !.weight = new_weights,
                                        !.num_embeddings = Len(new_weights)],
         assigned |-> weight_extension.assigned \/ num_added_tokens = 0]

\* _resize_embedding with nn.Embedding built without sparse and padding_idx
_resize_embedding_defaults(mod, opt, old_embeddings, num_added_tokens, pat) ==
    LET weight_extension ==
            InitParametersOf(mod, opt,
                Tensor(num_added_tokens, old_embeddings.embedding_dim, pat), pat)
        new_weights == old_embeddings.weight \o weight_extension.data
    IN  [raised |-> IF num_added_tokens < 0 THEN "RuntimeError" ELSE "none",
         emb |-> [old_embeddings EXCEPT !.weight = new_weights,
                                        !.num_embeddings = Len(new_weights),
                                        !.sparse = FALSE,
                                        !.padding_idx = 0 - 1],
         assigned |-> weight_extension.assigned \/ num_added_tokens = 0]

\* _resize_embedding: [raised, emb, assigned]
_resize_embedding(mod, opt, old_embeddings, num_added_tokens, pat) ==
    IF num_added_tokens < 0
    THEN [raised |-> "RuntimeError", emb |-> old_embeddings, assigned |-> TRUE]
    ELSE
    LET sparse == old_embeddings.sparse
        padding_idx == old_embeddings.padding_idx
        embedding_dim == old_embeddings.embedding_dim
        weight_extension ==
            InitParametersOf(mod, opt,
                             Tensor(num_added_tokens, embedding_dim, pat), pat)
        new_weights == old_embeddings.weight \o weight_extension.data
    IN  [raised |-> "none",
         emb |-> [weight |-> new_weights,
                  num_embeddings |-> Len(new_weights),
                  embedding_dim |-> embedding_dim,
                  sparse |-> sparse,
                  padding_idx |-> padding_idx],
         assigned |-> weight_extension.assigned \/ num_added_tokens = 0]

\* _resize_encoder / _resize_decoder given the added-token count
ResizeSide(s, mod, opt, side, num_added_tokens, pat) ==
    IF s.raised # "none" THEN s
    ELSE LET r == _resize_embedding(mod, opt, s.model[side], num_added_tokens, pat)
         IN  IF r.raised # "none" THEN [s EXCEPT !.raised = r.raised]
             ELSE [s EXCEPT !.model[side] = r.emb,
                            !.resized = @ \cup {side},
                            !.count[side] = num_added_tokens,
                            !.unassigned = IF r.assigned THEN @ ELSE @ \cup {side}]

\* the encoder resize with the difference taken the other way round
_resize_encoder_reversed(s, refs, mod, opt, pat) ==
    IF s.raised # "none" THEN s
    ELSE ResizeSide(s, mod, opt, "enc",
             s.model["enc"].num_embeddings - VocabLen(s.heap[refs["src"]]), pat)

\* rxn.onmt_utils: the count is the vocabulary length minus the row count
_resize_encoder(s, refs, mod, opt, pat) ==
    IF s.raised # "none" THEN s
    ELSE ResizeSide(s, mod, opt, "enc",
             VocabLen(s.heap[refs["src"]]) - s.model["enc"].num_embeddings, pat)

\* the decoder resize adding as many rows as the field has tokens
_resize_decoder_full(s, refs, mod, opt, pat) ==
    IF s.raised # "none" THEN s
    ELSE ResizeSide(s, mod, opt, "dec", VocabLen(s.heap[refs["tgt"]]), pat)

_resize_decoder(s, refs, mod, opt, pat) ==
    IF s.raised # "none" THEN s
    ELSE ResizeSide(s, mod, opt, "dec",
             VocabLen(s.heap[refs["tgt"]]) - s.model["dec"].num_embeddings, pat)

\* the generator resize with the bias left as it was and the shapes not
\* compared
ResizeLinear_oldbias(s, refs, mod, opt, num_added_tokens, pat) ==
    IF s.raised # "none" THEN s
    ELSE LET old_linear == s.model["gen"]
             weight_extension ==
                 InitParametersOf(mod, opt,
                     Tensor(num_added_tokens, old_linear.in_features, pat), pat)
         IN  [s EXCEPT
                !.model["gen"] = [old_linear EXCEPT
                    !.weight = old_linear.weight \o weight_extension.data,
                    !.out_features = VocabLen(s.heap[refs["tgt"]])],
                !.resized = @ \cup {"gen"},
                !.count["gen"] = num_added_tokens]

\* the generator resize with the extensions concatenated in front
ResizeLinear_prepend(s, refs, mod, opt, num_added_tokens, pat) ==
    IF s.raised # "none" THEN s
    ELSE LET old_linear == s.model["gen"]
             weight_extension ==
                 InitParametersOf(mod, opt,
                     Tensor(num_added_tokens, old_linear.in_features, pat), pat)
             bias_extension ==
                 InitParametersOf(mod, opt, Tensor1(num_added_tokens, pat), pat)
         IN  [s EXCEPT
                !.model["gen"] = [old_linear EXCEPT
                    !.weight = weight_extension.data \o old_linear.weight,
                    !.bias = bias_extension.data \o old_linear.bias,
                    !.out_features = VocabLen(s.heap[refs["tgt"]])],
                !.resized = @ \cup {"gen"},
                !.count["gen"] = num_added_tokens]

\* the generator resize cutting the projection down to the vocabulary
ResizeLinear_truncate(s, refs, mod, opt, num_added_tokens, pat) ==
    LET old_linear == s.model["gen"]
        out_features == VocabLen(s.heap[refs["tgt"]])
        rows == IF out_features < old_linear.out_features
                THEN out_features ELSE old_linear.out_features
    IN  [s EXCEPT
           !.model["gen"] = [old_linear EXCEPT
               !.weight = SubSeq(old_linear.weight, 1, rows),
               !.bias = SubSeq(old_linear.bias, 1, rows),
               !.out_features = rows],
           !.resized = @ \cup {"gen"},
           !.count["gen"] = num_added_tokens]

\* the generator resize given the added-token count: torch.Tensor raises on
\* a negative dimension, the new nn.Linear has len(vocab["tgt"]) rows and
\* load_state_dict raises on a shape mismatch
ResizeLinear(s, refs, mod, opt, num_added_tokens, pat) ==
    IF s.raised # "none" THEN s
    ELSE IF num_added_tokens < 0 THEN [s EXCEPT !.raised = "RuntimeError"]
    ELSE
    LET old_linear == s.model["gen"]
        weight_extension ==
            InitParametersOf(mod, opt,
                Tensor(num_added_tokens, old_linear.in_features, pat), pat)
        new_weights == old_linear.weight \o weight_extension.data
        bias_extension ==
            InitParametersOf(mod, opt, Tensor1(num_added_tokens, pat), pat)
        new_bias == old_linear.bias \o bias_extension.data
        out_features == VocabLen(s.heap[refs["tgt"]])
    IN  IF Len(new_weights) # out_features \/ Len(new_bias) # out_features
        THEN [s EXCEPT !.raised = "RuntimeError"]
        ELSE [s EXCEPT
                !.model["gen"] = [weight |-> new_weights,
                                  bias |-> new_bias,
                                  in_features |-> old_linear.in_features,
                                  out_features |-> out_features],
                !.resized = @ \cup {"gen"},
                !.count["gen"] = num_added_tokens,
                !.unassigned =
                    @ \cup (IF weight_extension.assigned \/ num_added_tokens = 0
                            THEN {} ELSE {"gen.weight"})
                      \cup (IF bias_extension.assigned \/ num_added_tokens = 0
                            THEN {} ELSE {"gen.bias"})]

\* rxn.onmt_utils
_resize_generator(s, refs, mod, opt, pat) ==
    IF s.raised # "none" THEN s
    ELSE ResizeLinear(s, refs, mod, opt,
             VocabLen(s.heap[refs["tgt"]]) - s.model["gen"].out_features, pat)

\* the session record a call starts from
Start(h, m) ==
    [heap |-> h, model |-> m, raised |-> "none",
     added |-> [f \in {"src", "tgt"} |-> <<>>],
     merged |-> {},
     heap_at |-> [f \in {"src", "tgt"} |-> h],
     resized |-> {},
     count |-> [x \in {"enc", "dec", "gen"} |-> 0],
     unassigned |-> {}]

\* extend_vocab of rxn.onmt_utils
extend_vocab(h, m, refs, opt, new_vocab, pat) ==
    LET mod == "rxn.onmt_utils"
        s1 == _extend_field_vocab(Start(h, m), refs, new_vocab, "src")
        s2 == _extend_field_vocab(s1, refs, new_vocab, "tgt")
        s3 == _resize_encoder(s2, refs, mod, opt, pat)
        s4 == _resize_decoder(s3, refs, mod, opt, pat)
    IN  _resize_generator(s4, refs, mod, opt, pat)

\* extend_vocab of rxn_onmt_utils: the counts are the lengths of the lists
\* of added tokens, and the target field is merged only if not share_vocab
extend_vocab_legacy(h, m, refs, opt, new_vocab, share_vocab, pat) ==
    LET mod == "rxn_onmt_utils"
        s1 == _extend_field_vocab(Start(h, m), refs, new_vocab, "src")
        s2 == IF share_vocab THEN s1
              ELSE _extend_field_vocab(s1, refs, new_vocab, "tgt")
        added_src_tokens == s2.added["src"]
        added_tgt_tokens == IF share_vocab THEN added_src_tokens ELSE s2.added["tgt"]
        s3 == ResizeSide(s2, mod, opt, "enc", Len(added_src_tokens), pat)
        s4 == ResizeSide(s3, mod, opt, "dec", Len(added_tgt_tokens), pat)
    IN  ResizeLinear(s4, refs, mod, opt, Len(added_tgt_tokens), pat)

----------------------------------------------------------------------------
(* State dictionaries and save_checkpoint *)

\* Module.state_dict() of the NMTModel: parameter name (as its dotted parts)
\* -> tensor
StateDict(m) ==
    LET emb == <<"embeddings", "make_embedding", "emb_luts", "0", "weight">>
    IN  (<<"encoder">> \o emb :> m["enc"].weight)
        @@ (<<"decoder">> \o emb :> m["dec"].weight)
        @@ (<<"generator", "0", "weight">> :> m["gen"].weight)
        @@ (<<"generator", "0", "bias">> :> m["gen"].bias)
        @@ m["rest"]

\* self.model.generator.state_dict()
GeneratorStateDict(m) ==
    (<<"0", "weight">> :> m["gen"].weight) @@ (<<"0", "bias">> :> m["gen"].bias)

\* "generator" in k
HasGenerator(k) == \E i \in 1..Len(k) : k[i] = "generator"

\* the record with the generator's parameters left in the model group
CheckpointRecord_unfiltered(h, refs, m, opt, ckpt) ==
    [model |-> StateDict(m),
     generator |-> GeneratorStateDict(m),
     vocab |-> [refs |-> refs, objects |-> h],
     opt |-> opt,
     optim |-> ckpt["optim"]]

\* the record with the optimizer state dropped
CheckpointRecord_nooptim(h, refs, m, opt, ckpt) ==
    LET sd == StateDict(m)
    IN  [model |-> [k \in {x \in DOMAIN sd : ~HasGenerator(x)} |-> sd[k]],
         generator |-> GeneratorStateDict(m),
         vocab |-> [refs |-> refs, objects |-> h],
         opt |-> opt,
         optim |-> "None"]

\* the record save_checkpoint hands to torch.save
CheckpointRecord(h, refs, m, opt, ckpt) ==
    LET sd == StateDict(m)
        model_state_dict == [k \in {x \in DOMAIN sd : ~HasGenerator(x)} |-> sd[k]]
        generator_state_dict == GeneratorStateDict(m)
    IN  [model |-> model_state_dict,
         generator |-> generator_state_dict,
         vocab |-> [refs |-> refs, objects |-> h],
         opt |-> opt,
         optim |-> ckpt["optim"]]

----------------------------------------------------------------------------
(* The checkpoint a session is constructed from *)

TrainedRows(n, d, base) == [i \in 1..n |-> [j \in 1..d |-> base + 10 * i + j]]

TrainedEmbedding(v, base, pad, sparse) ==
    [weight |-> TrainedRows(VocabLen(v), EmbDim, base),
     num_embeddings |-> VocabLen(v),
     embedding_dim |-> EmbDim,
     sparse |-> sparse,
     padding_idx |-> v.stoi[pad]]

TrainedLinear(v, base) ==
    [weight |-> TrainedRows(VocabLen(v), EmbDim, base),
     bias |-> [i \in 1..VocabLen(v) |-> base + 100 + i],
     in_features |-> EmbDim,
     out_features |-> VocabLen(v)]

\* build_model sizes the embeddings and the generator by the vocabulary and
\* loads the checkpoint's tensors into them
BuiltModel(h, refs) ==
    [enc |-> TrainedEmbedding(h[refs["src"]], 100, "<pad>", FALSE),
     dec |-> TrainedEmbedding(h[refs["tgt"]], 200, "<pad>", TRUE),
     gen |-> TrainedLinear(h[refs["tgt"]], 300),
     rest |-> (<<"encoder", "rnn", "weight">> :> <<<<501, 502>>>>)
              @@ (<<"decoder", "rnn", "weight">> :> <<<<601, 602>>>>)]

InitResizer ==
    /\ module \in Modules
    /\ \E shared \in BOOLEAN :
         /\ vocab = [src |-> 1, tgt |-> IF shared THEN 1 ELSE 2]
         /\ heap = IF shared
                   THEN (1 :> MakeVocab(<<"a", "<pad>">>))
                   ELSE (1 :> MakeVocab(<<"a", "<pad>">>))
                        @@ (2 :> MakeVocab(<<"<pad>", "b">>))
    /\ model = BuiltModel(heap, vocab)
    /\ \E param_init \in {0, 1}, param_init_glorot \in BOOLEAN :
         /\ model_opt = [param_init |-> param_init,
                         param_init_glorot |-> param_init_glorot,
                         gpu |-> 0 - 1]
         /\ checkpoint = [opt |-> [model_opt EXCEPT !.gpu = 0], optim |-> "adam"]
    /\ files = ("model.pt" :> CheckpointRecord(heap, vocab, model,
                                                checkpoint["opt"], checkpoint))
    /\ calls = 0
    /\ saves = 0
    /\ strips = 0
    /\ last = [op |-> "__init__", new_vocab |-> <<>>, share_vocab |-> FALSE,
               model_in |-> "model.pt", path |-> "model.pt",
               pre_heap |-> heap, pre_model |-> model,
               ret |-> Start(heap, model)]

\* no OnmtTrainCommand object
NoCommand == [op |-> "none"]

Init == InitResizer /\ train = NoCommand

----------------------------------------------------------------------------
(* Files *)

torch_save_source(fs, obj, path) == ("model.pt" :> obj) @@ fs

\* torch.save(obj, path): the file at path holds obj afterwards, whether or
\* not a file was there before
torch_save(fs, obj, path) == (path :> obj) @@ fs

strip_model_keep(loaded_model) == loaded_model

\* the record strip_model saves: loaded_model["optim"] = None
strip_model(loaded_model) == [loaded_model EXCEPT !["optim"] = "None"]

----------------------------------------------------------------------------
(* train_command.py: the onmt_train command line *)

\* Python values: None, and strings
None == [type |-> "NoneType", v |-> ""]

Str(x) == [type |-> "str", v |-> x]

RECURSIVE JoinParts(_)
JoinParts(parts) ==
    IF Len(parts) = 1 THEN parts[1]
    ELSE JoinParts(SubSeq(parts, 1, Len(parts) - 1)) \o "/" \o parts[Len(parts)]

\* pathlib.Path of a relative path, by its parts; v is what str() gives
PosixPath(parts) == [type |-> "PosixPath", v |-> JoinParts(parts), parts |-> parts]

\* path.parent
Parent(path) ==
    IF Len(path.parts) > 1
    THEN PosixPath(SubSeq(path.parts, 1, Len(path.parts) - 1))
    ELSE PosixPath(<<".">>)

\* path / name
Joined(path, name) ==
    IF path.parts = <<".">> THEN PosixPath(<<name>>)
    ELSE PosixPath(Append(path.parts, name))

\* a dict or a list as a Python value
Container(type, v) == [type |-> type, v |-> v]

\* str(value)
str(value) == IF value = None THEN "None" ELSE value.v

\* class RxnCommand(Flag): a flag is the set of its base flags
RxnCommand ==
    [T |-> {"T"}, C |-> {"C"}, F |-> {"F"},
     TC |-> {"T", "C"}, TF |-> {"T", "F"}, CF |-> {"C", "F"},
     TCF |-> {"T", "C", "F"}]

\* Flag.__contains__: flag in flags
FlagIn(flag, flags) == flag \subseteq flags

Arg(key, default, needed_for) ==
    [key |-> key, default |-> default, needed_for |-> needed_for]

ONMT_TRAIN_ARGS == <<
    Arg("accum_count", Str("4"), RxnCommand.TCF),
    Arg("adam_beta1", Str("0.9"), RxnCommand.TF),
    Arg("adam_beta2", Str("0.998"), RxnCommand.TF),
    Arg("batch_size", None, RxnCommand.TCF),
    Arg("batch_type", Str("tokens"), RxnCommand.TCF),
    Arg("data", None, RxnCommand.TCF),
    Arg("decay_method", Str("noam"), RxnCommand.TF),
    Arg("decoder_type", Str("transformer"), RxnCommand.T),
    Arg("dropout", None, RxnCommand.TCF),
    Arg("encoder_type", Str("transformer"), RxnCommand.T),
    Arg("global_attention", Str("general"), RxnCommand.T),
    Arg("global_attention_function", Str("softmax"), RxnCommand.T),
    Arg("heads", None, RxnCommand.T),
    Arg("keep_checkpoint", Str("-1"), RxnCommand.TCF),
    Arg("label_smoothing", Str("0.0"), RxnCommand.TCF),
    Arg("layers", None, RxnCommand.T),
    Arg("learning_rate", None, RxnCommand.TF),
    Arg("max_generator_batches", Str("32"), RxnCommand.TCF),
    Arg("max_grad_norm", Str("0"), RxnCommand.TF),
    Arg("normalization", Str("tokens"), RxnCommand.TCF),
    Arg("optim", Str("adam"), RxnCommand.TF),
    Arg("param_init", Str("0"), RxnCommand.T),
    Arg("param_init_glorot", Str(""), RxnCommand.T),
    Arg("position_encoding", Str(""), RxnCommand.T),
    Arg("report_every", Str("1000"), RxnCommand.TCF),
    Arg("reset_optim", None, RxnCommand.CF),
    Arg("hidden_size", None, RxnCommand.TF),
    Arg("save_checkpoint_steps", Str("5000"), RxnCommand.TCF),
    Arg("save_model", None, RxnCommand.TCF),
    Arg("seed", None, RxnCommand.TCF),
    Arg("self_attn_type", Str("scaled-dot"), RxnCommand.T),
    Arg("share_embeddings", Str(""), RxnCommand.T),
    Arg("src_vocab", None, RxnCommand.T),
    Arg("tgt_vocab", None, RxnCommand.T),
    Arg("train_from", None, RxnCommand.CF),
    Arg("train_steps", None, RxnCommand.TCF),
    Arg("transformer_ff", None, RxnCommand.T),
    Arg("valid_batch_size", Str("8"), RxnCommand.TCF),
    Arg("warmup_steps", None, RxnCommand.TF),
    Arg("word_vec_size", None, RxnCommand.T)
>>

_args_for_gpu(no_gpu) == IF no_gpu THEN <<>> ELSE <<"-gpu_ranks", "0">>

preprocessed_id_names(n_additional_sets) ==
    <<"main_set">>
    \o [i \in 1..n_additional_sets |-> "additional_set_" \o ToString(i)]

_args_for_data_weights(data_weights) ==
    IF data_weights = <<>> THEN <<>>
    ELSE <<"-data_ids">>
         \o preprocessed_id_names(Len(data_weights) - 1)
         \o <<"-data_weights">>
         \o [i \in 1..Len(data_weights) |-> ToString(data_weights[i])]

RECURSIVE BuildLoop(_, _, _, _)
\* the for loop of _build_cmd from the i-th argument of the table on
BuildLoop(command, command_type, kwargs, i) ==
    IF i > Len(ONMT_TRAIN_ARGS) THEN [raised |-> "none", command |-> command]
    ELSE
    LET arg == ONMT_TRAIN_ARGS[i]
        arg_given == arg.key \in DOMAIN kwargs
    IN  IF ~FlagIn(command_type, arg.needed_for)
        THEN IF arg_given
             THEN [raised |-> "ValueError", command |-> command]
             ELSE BuildLoop(command, command_type, kwargs, i + 1)
        ELSE IF ~arg_given /\ arg.default = None
        THEN [raised |-> "ValueError", command |-> command]
        ELSE LET value == IF arg_given THEN str(kwargs[arg.key])
                          ELSE str(arg.default)
                 with_key == Append(command, "-" \o arg.key)
             IN  BuildLoop(IF value # "" THEN Append(with_key, value)
                           ELSE with_key,
                           command_type, kwargs, i + 1)

_build_cmd_nogpu(command_type, no_gpu, data_weights, kwargs) ==
    LET r == BuildLoop(<<"onmt_train">>, command_type, kwargs, 1)
    IN  IF r.raised # "none" THEN r
        ELSE [r EXCEPT !.command = @ \o _args_for_data_weights(data_weights)]

\* OnmtTrainCommand.is_valid_kwarg_value: for a key outside the table the
\* NameError is built but not raised, and the use of the unbound local
\* onmt_train_kwarg raises UnboundLocalError
is_valid_kwarg_value(command_type, kwarg, value) ==
    LET found == {i \in 1..Len(ONMT_TRAIN_ARGS) : ONMT_TRAIN_ARGS[i].key = kwarg}
    IN  IF found = {}
        THEN [raised |-> "UnboundLocalError", value |-> FALSE]
        ELSE
        LET onmt_train_kwarg ==
                ONMT_TRAIN_ARGS[CHOOSE i \in found : \A j \in found : j <= i]
        IN  IF ~FlagIn(command_type, onmt_train_kwarg.needed_for)
            THEN [raised |-> "ValueError", value |-> FALSE]
            ELSE IF onmt_train_kwarg.default = None /\ value = None
            THEN [raised |-> "ValueError", value |-> FALSE]
            ELSE [raised |-> "none", value |-> TRUE]

\* the keyword arguments is_valid_kwarg_value raises for
Rejected(command_type, kwargs) ==
    {k \in DOMAIN kwargs :
        is_valid_kwarg_value(command_type, k, kwargs[k]).raised # "none"}

\* OnmtTrainCommand.save_to_config_cmd once every keyword argument passed
\* is_valid_kwarg_value: the lookups of data, src_vocab, tgt_vocab and
\* save_model raise KeyError for an argument not given, and .parent needs
\* data to be a Path
ConfigOf(no_gpu, kwargs, cuda) ==
    LET gpu == IF cuda /\ ~no_gpu
               THEN ("gpu_ranks" :> Container("list", <<0>>)) ELSE <<>>
        train_config == kwargs @@ gpu
    IN  IF "data" \notin DOMAIN train_config
        THEN [raised |-> "KeyError", config |-> <<>>]
        ELSE
        LET path_save_prepr_data == train_config["data"]
        IN  IF path_save_prepr_data.type # "PosixPath"
            THEN [raised |-> "AttributeError", config |-> <<>>]
            ELSE IF {"src_vocab", "tgt_vocab", "save_model"}
                       \subseteq DOMAIN train_config
            THEN
            LET dir == Parent(Parent(path_save_prepr_data))
                Corpus(src, tgt) ==
                    Container("dict",
                        [path_src |-> Str(str(Joined(dir, src))),
                         path_tgt |-> Str(str(Joined(dir, tgt)))])
                data == Container("dict",
                    [corpus_1 |->
                         Corpus("data.processed.train.precursors_tokens",
                                "data.processed.train.products_tokens"),
                     valid |->
                         Corpus("data.processed.validation.precursors_tokens",
                                "data.processed.validation.products_tokens")])
            IN  [raised |-> "none",
                 config |->
                    ("save_data" :> Str(str(path_save_prepr_data)))
                    @@ ("data" :> data)
                    @@ ("src_vocab" :> Str(str(train_config["src_vocab"])))
                    @@ ("tgt_vocab" :> Str(str(train_config["tgt_vocab"])))
                    @@ ("save_model" :> Str(str(train_config["save_model"])))
                    @@ train_config]
            ELSE [raised |-> "KeyError", config |-> <<>>]

\* OnmtTrainCommand._build_cmd, which cmd() returns
_build_cmd(command_type, no_gpu, data_weights, kwargs) ==
    LET r == BuildLoop(<<"onmt_train">>, command_type, kwargs, 1)
    IN  IF r.raised # "none" THEN r
        ELSE [r EXCEPT !.command = @ \o _args_for_gpu(no_gpu)
                                     \o _args_for_data_weights(data_weights)]

----------------------------------------------------------------------------
(* The operations *)

\* ModelResizer.extend_vocab(new_vocab_path) of rxn.onmt_utils
ExtendVocab ==
    /\ module = "rxn.onmt_utils"
    /\ calls < MaxCalls
    /\ \E new_vocab \in NewVocabs \cup {OwnVocab(heap, vocab)}, pat \in Patterns :
         LET s == extend_vocab(heap, model, vocab, model_opt, new_vocab, pat)
         IN  /\ heap' = s.heap
             /\ model' = s.model
             /\ last' = [op |-> "extend_vocab", new_vocab |-> new_vocab,
                         share_vocab |-> FALSE, model_in |-> "model.pt",
                         path |-> "vocab.pt",
                         pre_heap |-> heap, pre_model |-> model, ret |-> s]
    /\ calls' = calls + 1
    /\ UNCHANGED <<module, vocab, model_opt, checkpoint, files, saves, strips,
                   train>>

\* ModelResizer.extend_vocab(new_vocab_path, share_vocab) of rxn_onmt_utils
ExtendVocabLegacy ==
    /\ module = "rxn_onmt_utils"
    /\ calls < MaxCalls
    /\ \E new_vocab \in NewVocabs \cup {OwnVocab(heap, vocab)},
          share_vocab \in BOOLEAN, pat \in Patterns :
         LET s == extend_vocab_legacy(heap, model, vocab, model_opt,
                                      new_vocab, share_vocab, pat)
         IN  /\ heap' = s.heap
             /\ model' = s.model
             /\ last' = [op |-> "extend_vocab", new_vocab |-> new_vocab,
                         share_vocab |-> share_vocab, model_in |-> "model.pt",
                         path |-> "vocab.pt",
                         pre_heap |-> heap, pre_model |-> model, ret |-> s]
    /\ calls' = calls + 1
    /\ UNCHANGED <<module, vocab, model_opt, checkpoint, files, saves, strips,
                   train>>

\* ModelResizer.save_checkpoint(save_path), the same in both modules
SaveCheckpoint ==
    /\ saves < MaxSaves
    /\ saves' = saves + 1
    /\ \E save_path \in Paths :
         /\ files' = torch_save(files,
                                CheckpointRecord(heap, vocab, model, model_opt,
                                                 checkpoint),
                                save_path)
         /\ last' = [op |-> "save_checkpoint", new_vocab |-> <<>>,
                     share_vocab |-> FALSE, model_in |-> "model.pt",
                     path |-> save_path,
                     pre_heap |-> heap, pre_model |-> model,
                     ret |-> Start(heap, model)]
    /\ UNCHANGED <<module, heap, vocab, model, model_opt, checkpoint, calls,
                   strips, train>>

\* strip_model(model_in, model_out): get_file_size_as_string(model_in) and
\* torch.load(model_in) fail when no file is at model_in; else the loaded
\* record, its optim entry set to None, is saved at model_out, which may be
\* model_in itself
StripModel ==
    /\ strips < MaxStrips
    /\ strips' = strips + 1
    /\ \E model_in \in Paths, model_out \in Paths :
         LET found == model_in \in DOMAIN files
         IN  /\ files' = IF found
                         THEN torch_save(files, strip_model(files[model_in]),
                                         model_out)
                         ELSE files
             /\ last' = [op |-> "strip_model", new_vocab |-> <<>>,
                         share_vocab |-> FALSE, model_in |-> model_in,
                         path |-> model_out,
                         pre_heap |-> heap, pre_model |-> model,
                         ret |-> [Start(heap, model) EXCEPT
                                    !.raised = IF found THEN "none"
                                               ELSE "FileNotFoundError"]]
    /\ UNCHANGED <<module, heap, vocab, model, model_opt, checkpoint, calls,
                   saves, train>>

\* one ModelResizer session
Next == ExtendVocab \/ ExtendVocabLegacy \/ SaveCheckpoint

Spec == Init /\ [][Next]_vars

\* _resize_generator applied to a session object whatever its attributes
\* hold: the projection's row count is drawn independently of the target
\* vocabulary, and so is the count handed to the older module's method.
MaxRows == 4

TrainedLinearOfRows(rows) ==
    [weight |-> TrainedRows(rows, EmbDim, 300),
     bias |-> [i \in 1..rows |-> 400 + i],
     in_features |-> EmbDim,
     out_features |-> rows]

InitGen ==
    /\ module \in Modules
    /\ \E shared \in BOOLEAN :
         /\ vocab = [src |-> 1, tgt |-> IF shared THEN 1 ELSE 2]
         /\ heap = IF shared
                   THEN (1 :> MakeVocab(<<"a", "<pad>">>))
                   ELSE (1 :> MakeVocab(<<"a", "<pad>">>))
                        @@ (2 :> MakeVocab(<<"<pad>", "b">>))
    /\ \E rows \in 1..MaxRows :
         model = [BuiltModel(heap, vocab) EXCEPT
                    !["gen"] = TrainedLinearOfRows(rows)]
    /\ \E param_init \in {0, 1}, param_init_glorot \in BOOLEAN :
         /\ model_opt = [param_init |-> param_init,
                         param_init_glorot |-> param_init_glorot,
                         gpu |-> 0 - 1]
         /\ checkpoint = [opt |-> [model_opt EXCEPT !.gpu = 0], optim |-> "adam"]
    /\ files = ("model.pt" :> CheckpointRecord(heap, vocab, model,
                                                checkpoint["opt"], checkpoint))
    /\ calls = 0
    /\ saves = 0
    /\ strips = 0
    /\ last = [op |-> "__init__", new_vocab |-> <<>>, share_vocab |-> FALSE,
               model_in |-> "model.pt", path |-> "model.pt",
               pre_heap |-> heap, pre_model |-> model,
               ret |-> Start(heap, model)]
    /\ train = NoCommand

\* ModelResizer._resize_generator() of rxn.onmt_utils
ResizeGenerator ==
    /\ module = "rxn.onmt_utils"
    /\ calls < MaxCalls
    /\ \E pat \in Patterns :
         LET s == _resize_generator(Start(heap, model), vocab, module,
                                    model_opt, pat)
         IN  /\ model' = s.model
             /\ last' = [op |-> "_resize_generator", new_vocab |-> <<>>,
                         share_vocab |-> FALSE, model_in |-> "model.pt",
                         path |-> "model.pt",
                         pre_heap |-> heap, pre_model |-> model, ret |-> s]
    /\ calls' = calls + 1
    /\ UNCHANGED <<module, heap, vocab, model_opt, checkpoint, files, saves,
                   strips, train>>

\* ModelResizer._resize_generator(num_added_tokens) of rxn_onmt_utils
ResizeGeneratorLegacy ==
    /\ module = "rxn_onmt_utils"
    /\ calls < MaxCalls
    /\ \E num_added_tokens \in (0 - MaxCandLen)..MaxCandLen, pat \in Patterns :
         LET s == ResizeLinear(Start(heap, model), vocab, module, model_opt,
                               num_added_tokens, pat)
         IN  /\ model' = s.model
             /\ last' = [op |-> "_resize_generator", new_vocab |-> <<>>,
                         share_vocab |-> FALSE, model_in |-> "model.pt",
                         path |-> "model.pt",
                         pre_heap |-> heap, pre_model |-> model, ret |-> s]
    /\ calls' = calls + 1
    /\ UNCHANGED <<module, heap, vocab, model_opt, checkpoint, files, saves,
                   strips, train>>

NextGen == ResizeGenerator \/ ResizeGeneratorLegacy

SpecGen == InitGen /\ [][NextGen]_vars

\* OnmtTrainCommand objects: the arguments the command type needs and that
\* have no default are given, but for up to MaxMissing of them, and up to
\* MaxExtra other keyword arguments are given besides
MaxMissing == 1

MaxExtra == 1

MaxWeights == 2

RECURSIVE SubsetsUpTo(_, _)
SubsetsUpTo(S, n) ==
    IF n = 0 THEN {{}}
    ELSE LET smaller == SubsetsUpTo(S, n - 1)
         IN  smaller \cup {X \cup {x} : X \in smaller, x \in S}

Keys == {ONMT_TRAIN_ARGS[i].key : i \in 1..Len(ONMT_TRAIN_ARGS)}

RequiredKeys(command_type) ==
    {ONMT_TRAIN_ARGS[i].key : i \in
        {j \in 1..Len(ONMT_TRAIN_ARGS) :
            /\ FlagIn(command_type, ONMT_TRAIN_ARGS[j].needed_for)
            /\ ONMT_TRAIN_ARGS[j].default = None}}

\* the values given for the other keyword arguments
GivenValues == {Str("1"), Str(""), None}

\* a keyword argument that is no argument of onmt_train
OtherKeys == {"beam_size"}

Kwargs(command_type) ==
    LET required == RequiredKeys(command_type)
    IN  UNION {{[k \in (required \ missing) \cup extra |->
                    IF k \in extra THEN value
                    ELSE IF k = "data"
                    THEN PosixPath(<<"exp", "data", "preprocessed">>)
                    ELSE Str("x")] :
                 value \in GivenValues} :
               missing \in SubsetsUpTo(required, MaxMissing),
               extra \in SubsetsUpTo((Keys \cup OtherKeys) \ required,
                                     MaxExtra)}

InitCmd ==
    /\ InitResizer
    /\ module = "rxn.onmt_utils"
    /\ model_opt.param_init = 1
    /\ model_opt.param_init_glorot
    /\ vocab["src"] # vocab["tgt"]
    /\ \E command_type \in {RxnCommand.T, RxnCommand.C, RxnCommand.F},
          no_gpu \in BOOLEAN,
          data_weights \in SeqsUpTo({1, 3}, MaxWeights) :
         \E kwargs \in Kwargs(command_type) :
            train = [op |-> "__init__", command_type |-> command_type,
                     no_gpu |-> no_gpu, data_weights |-> data_weights,
                     kwargs |-> kwargs,
                     ret |-> [raised |-> "none", command |-> <<>>]]

\* OnmtTrainCommand.cmd()
Cmd ==
    /\ train.op = "__init__"
    /\ train' = [train EXCEPT
                   !.op = "cmd",
                   !.ret = _build_cmd(train.command_type, train.no_gpu,
                                      train.data_weights, train.kwargs)]
    /\ UNCHANGED <<module, heap, vocab, model, model_opt, checkpoint, files,
                   calls, saves, strips, last>>

\* OnmtTrainCommand.is_valid_kwarg_value(kwarg, value), called as
\* save_to_config_cmd calls it: on an item of self._kwargs
IsValidKwargValue ==
    /\ train.op = "__init__"
    /\ \E kwarg \in DOMAIN train.kwargs :
         train' = [op |-> "is_valid_kwarg_value",
                   command_type |-> train.command_type,
                   no_gpu |-> train.no_gpu,
                   data_weights |-> train.data_weights,
                   kwargs |-> train.kwargs,
                   kwarg |-> kwarg,
                   value |-> train.kwargs[kwarg],
                   ret |-> is_valid_kwarg_value(train.command_type, kwarg,
                                                train.kwargs[kwarg])]
    /\ UNCHANGED <<module, heap, vocab, model, model_opt, checkpoint, files,
                   calls, saves, strips, last>>

\* OnmtTrainCommand.save_to_config_cmd(config_file_path): the loop over
\* self._kwargs.items() stops at the first item is_valid_kwarg_value raises
\* for, whichever the order of the items makes it
SaveToConfigCmd ==
    /\ train.op = "__init__"
    /\ \E cuda \in BOOLEAN :
         LET rejected == Rejected(train.command_type, train.kwargs)
         IN  IF rejected = {}
             THEN train' = [train EXCEPT
                              !.op = "save_to_config_cmd",
                              !.ret = ConfigOf(train.no_gpu, train.kwargs, cuda)]
             ELSE \E kwarg \in rejected :
                    train' = [train EXCEPT
                       !.op = "save_to_config_cmd",
                       !.ret = [raised |->
                                   is_valid_kwarg_value(train.command_type,
                                       kwarg, train.kwargs[kwarg]).raised,
                                config |-> <<>>]]
    /\ UNCHANGED <<module, heap, vocab, model, model_opt, checkpoint, files,
                   calls, saves, strips, last>>

NextCmd == Cmd \/ IsValidKwargValue \/ SaveToConfigCmd

SpecCmd == InitCmd /\ [][NextCmd]_vars

\* A session together with strip_model runs on the same directory.  The
\* files are written the same way whatever the initialisation options and
\* the sharing of the fields are, so one choice of them is explored.
InitFiles ==
    /\ Init
    /\ model_opt.param_init = 1
    /\ model_opt.param_init_glorot
    /\ vocab["src"] # vocab["tgt"]

NextFiles == ExtendVocab \/ ExtendVocabLegacy \/ SaveCheckpoint \/ StripModel

SpecFiles == InitFiles /\ [][NextFiles]_vars

----------------------------------------------------------------------------
(* What the last call did *)

Extended == last.op = "extend_vocab"

Returned == Extended /\ last.ret.raised = "none"

Saved == last.op = "save_checkpoint"

\* the Vocab object of field f right before and right after its merge
FieldBefore(f) == last.ret.heap_at[f][vocab[f]]

FieldAfter(f) ==
    IF f = "src" /\ "tgt" \in last.ret.merged
    THEN last.ret.heap_at["tgt"][vocab["src"]]
    ELSE heap[vocab[f]]

FirstIndex(seq, t) == CHOOSE i \in 1..Len(seq) :
                          seq[i] = t /\ \A j \in 1..(i - 1) : seq[j] # t

\* the rows (or entries) a resize appended to a tensor
NewIndices(old, new) == (Len(old) + 1)..Len(new)

----------------------------------------------------------------------------
(* C1: _resize_embedding returns a (V+n, D) matrix whose first V rows are  *)
(* the input's rows, entry by entry, whatever the initialisation options.  *)
C1_EmbeddingRowsPreserved ==
    Extended =>
      \A side \in last.ret.resized \cap {"enc", "dec"} :
        LET old == last.pre_model[side]
            new == model[side]
        IN  /\ Len(new.weight) = Len(old.weight) + last.ret.count[side]
            /\ new.num_embeddings = Len(new.weight)
            /\ \A i \in 1..Len(new.weight) : Len(new.weight[i]) = old.embedding_dim
            /\ \A i \in 1..Len(old.weight) :
                 \A j \in 1..old.embedding_dim : new.weight[i][j] = old.weight[i][j]

C1_Witness ==
    /\ Returned
    /\ "enc" \in last.ret.resized
    /\ last.ret.count["enc"] = 2
    /\ model_opt.param_init # 0
    /\ model_opt.param_init_glorot

(* C2: _extend_field_vocab returns exactly the candidate tokens absent     *)
(* from the field before the call, in order of first occurrence and once   *)
(* each, and appends them with the indices old_size, old_size + 1, ...     *)
C2_AddedTokensExact ==
    Extended =>
      \A f \in last.ret.merged :
        LET before == FieldBefore(f)
            after == FieldAfter(f)
            cand == last.new_vocab[f]
            added == last.ret.added[f]
        IN  /\ Range(added) = Range(cand) \ Range(before.itos)
            /\ \A i, j \in 1..Len(added) :
                 i < j => /\ added[i] # added[j]
                          /\ FirstIndex(cand, added[i]) < FirstIndex(cand, added[j])
            /\ after.itos = before.itos \o added
            /\ \A i \in 1..Len(added) :
                 /\ added[i] \in DOMAIN after.stoi
                 /\ after.stoi[added[i]] = Len(before.itos) + i - 1

C2_Witness ==
    /\ Returned
    /\ "src" \in last.ret.merged
    /\ last.new_vocab["src"] = <<"c", "c">>
    /\ last.ret.added["src"] = <<"c">>

(* C3: after any sequence of merges itos[stoi[t]] = t for every token, the *)
(* indices are unique and exactly 0..len(itos)-1, and every token present  *)
(* before a merge keeps its index.                                         *)
C3_VocabInvariant ==
    \A o \in DOMAIN heap :
      LET v == heap[o]
          was == last.pre_heap[o]
      IN  /\ DOMAIN v.stoi = Range(v.itos)
          /\ \A t \in DOMAIN v.stoi :
               /\ v.stoi[t] \in 0..(Len(v.itos) - 1)
               /\ v.itos[v.stoi[t] + 1] = t
          /\ \A t, u \in DOMAIN v.stoi : v.stoi[t] = v.stoi[u] => t = u
          /\ {v.stoi[t] : t \in DOMAIN v.stoi} = 0..(Len(v.itos) - 1)
          /\ \A t \in DOMAIN was.stoi :
               t \in DOMAIN v.stoi /\ v.stoi[t] = was.stoi[t]

C3_Witness ==
    /\ Extended
    /\ calls = 2
    /\ Len(last.pre_heap[1].itos) = 3
    /\ Len(heap[1].itos) = 4

(* C4: after extend_vocab returns, the encoder embedding has as many rows  *)
(* as the source field has tokens and the decoder embedding as many as the *)
(* target field, also with distinct field objects and default sharing.     *)
C4_EmbeddingRowsMatchVocab ==
    Returned =>
      /\ model["enc"].num_embeddings = VocabLen(heap[vocab["src"]])
      /\ model["dec"].num_embeddings = VocabLen(heap[vocab["tgt"]])

(* C5: after the generator resize the weight's row count equals the bias   *)
(* length and both equal the size of the target field read from the        *)
(* vocabulary.                                                             *)
C5_ProjectionMatchesVocab ==
    (Extended /\ "gen" \in last.ret.resized) =>
      /\ Len(model["gen"].weight) = Len(model["gen"].bias)
      /\ Len(model["gen"].bias) = VocabLen(heap[vocab["tgt"]])
      /\ model["gen"].out_features = VocabLen(heap[vocab["tgt"]])

C5_Witness ==
    /\ Extended
    /\ "gen" \in last.ret.resized
    /\ last.ret.count["gen"] = 2
    /\ VocabLen(heap[vocab["tgt"]]) = 4

(* C6: the generator resize copies every old weight row and every old bias *)
(* entry to the same position; only the rows and entries after them are    *)
(* new.                                                                    *)
C6_ProjectionRowsPreserved ==
    (Extended /\ "gen" \in last.ret.resized) =>
      LET old == last.pre_model["gen"]
          new == model["gen"]
      IN  /\ Len(new.weight) = Len(old.weight) + last.ret.count["gen"]
          /\ Len(new.bias) = Len(old.bias) + last.ret.count["gen"]
          /\ \A i \in 1..Len(old.weight) : new.weight[i] = old.weight[i]
          /\ \A i \in 1..Len(old.bias) : new.bias[i] = old.bias[i]

C6_Witness ==
    /\ Extended
    /\ "gen" \in last.ret.resized
    /\ last.ret.count["gen"] = 1
    /\ calls = 2
    /\ Len(last.pre_model["gen"].weight) = 3

\* x lies in [-param_init, param_init]
InRange(x) == 0 - model_opt.param_init <= x /\ x <= model_opt.param_init

NewEntries2(old, new) ==
    {new[i][j] : i \in NewIndices(old, new), j \in 1..EmbDim}

C8_PaddingAndSparseKept ==
    Extended =>
      \A side \in last.ret.resized \cap {"enc", "dec"} :
        /\ model[side].padding_idx = last.pre_model[side].padding_idx
        /\ model[side].sparse = last.pre_model[side].sparse

C8_Witness ==
    /\ Returned
    /\ {"enc", "dec"} \subseteq last.ret.resized
    /\ last.ret.count["enc"] = 1
    /\ last.ret.count["dec"] = 1
    /\ model["dec"].sparse
    /\ model["enc"].padding_idx = 1

(* C9: the record save_checkpoint builds has exactly the entries model,    *)
(* generator, vocab, opt and optim, and every parameter of the model is in *)
(* exactly one group: the generator's in generator, the others in model.   *)
C9_CheckpointPartition ==
    Saved =>
      LET rec == files[last.path]
          sd == StateDict(model)
          ofGenerator == {k \in DOMAIN sd : k[1] = "generator"}
      IN  /\ DOMAIN rec = {"model", "generator", "vocab", "opt", "optim"}
          /\ DOMAIN rec["model"] = DOMAIN sd \ ofGenerator
          /\ DOMAIN rec["generator"] = {Tail(k) : k \in ofGenerator}
          /\ DOMAIN rec["model"] \cap DOMAIN rec["generator"] = {}
          /\ Cardinality(DOMAIN rec["model"]) + Cardinality(DOMAIN rec["generator"])
               = Cardinality(DOMAIN sd)
          /\ \A k \in DOMAIN rec["model"] : rec["model"][k] = sd[k]
          /\ \A k \in ofGenerator : rec["generator"][Tail(k)] = sd[k]

C9_Witness ==
    /\ Saved
    /\ calls = 1
    /\ Len(model["gen"].weight) = 3
    /\ Len(model["enc"].weight) = 3

(* C10: the optim entry save_checkpoint writes is the optim entry of the   *)
(* checkpoint loaded at construction; no extend_vocab call in between      *)
(* changes it.                                                             *)
C10_OptimPassedThrough ==
    [][/\ checkpoint'["optim"] = checkpoint["optim"]
       /\ last'.op = "save_checkpoint" =>
            files'[last'.path]["optim"] = checkpoint["optim"]]_vars

C10_Witness ==
    /\ Saved
    /\ calls = 2
    /\ files[last.path]["optim"] = "adam"

Stripped == last.op = "strip_model" /\ last.ret.raised = "none"

(* C11: for every checkpoint record it loads, strip_model writes a record  *)
(* with the same keys whose optim entry is None and whose every other      *)
(* entry equals the input's, whether or not the input's optim entry was    *)
(* already None.                                                           *)
C11_StripKeepsAllButOptim ==
    [][(strips' = strips + 1 /\ last'.ret.raised = "none") =>
         LET loaded == files[last'.model_in]
             written == files'[last'.path]
         IN  /\ DOMAIN written = DOMAIN loaded
             /\ written["optim"] = "None"
             /\ \A k \in DOMAIN loaded \ {"optim"} : written[k] = loaded[k]]_vars

\* a second strip, of the file the first strip wrote
C11_Witness ==
    /\ Stripped
    /\ strips = 2
    /\ saves = 0
    /\ last.model_in = "resized.pt"
    /\ files[last.path]["optim"] = "None"

(* C12: no operation changes the contents of the loaded checkpoint file,   *)
(* whatever output path save_checkpoint or strip_model is given and        *)
(* whatever exception a step raises.                                       *)
C12_SourceFileNeverChanges ==
    [][files'["model.pt"] = files["model.pt"]]_vars

(* C12, amended: the loaded checkpoint file changes only in a              *)
(* save_checkpoint or strip_model call that is given that file's own path  *)
(* as its output path; every call given another output path, every         *)
(* extend_vocab call and every call that raises leave all files as they    *)
(* were, but for the one at the output path.                               *)
C12_SourceChangesOnlyAsOutput ==
    [][/\ files'["model.pt"] # files["model.pt"] =>
            /\ last'.op \in {"save_checkpoint", "strip_model"}
            /\ last'.path = "model.pt"
            /\ last'.ret.raised = "none"
       /\ \A p \in DOMAIN files :
            (p # last'.path \/ last'.ret.raised # "none"
               \/ last'.op = "extend_vocab") =>
              (p \in DOMAIN files' /\ files'[p] = files[p])]_vars

\* a resized checkpoint saved beside the loaded one, after a strip
C12_Witness ==
    /\ Saved
    /\ last.path = "resized.pt"
    /\ calls = 2
    /\ strips > 0
    /\ files["resized.pt"] # files["model.pt"]
    /\ files["model.pt"]["optim"] = "adam"

(* C13: when a field the resize needs (src or tgt) is absent from the      *)
(* vocabulary file, extend_vocab fails with no partial application: the    *)
(* src and tgt vocabularies, the embeddings and the projection are after   *)
(* the failure what they were before the call.                             *)
C13_MissingFieldNoPartialApplication ==
    (Extended /\ last.ret.raised = "KeyError") =>
        /\ heap = last.pre_heap
        /\ model = last.pre_model

GeneratorResized == last.op = "_resize_generator"

(* C14: when the target vocabulary is smaller than the projection's row    *)
(* count (a negative added-token count), the projection resize fails with  *)
(* an error: it never yields a projection with fewer rows than before and  *)
(* never replaces the model's projection.                                  *)
C14_ShrinkingProjectionFails ==
    GeneratorResized =>
        LET old_linear == last.pre_model["gen"]
            size == VocabLen(heap[vocab["tgt"]])
        IN  /\ size < old_linear.out_features =>
                  /\ last.ret.raised # "none"
                  /\ model["gen"] = old_linear
            /\ last.ret.raised = "none" =>
                  /\ Len(model["gen"].weight) >= Len(old_linear.weight)
                  /\ Len(model["gen"].bias) >= Len(old_linear.bias)
                  /\ model["gen"].out_features = size

\* a projection of four rows with a target vocabulary of two tokens
C14_Witness ==
    /\ GeneratorResized
    /\ last.pre_model["gen"].out_features = 4
    /\ VocabLen(heap[vocab["tgt"]]) = 2
    /\ last.ret.raised = "RuntimeError"
    /\ Len(model["gen"].weight) = 4

(* C15: a session only advances LOADED -> VOCAB_MERGED ->                  *)
(* EMBEDDINGS_RESIZED -> PROJECTION_RESIZED -> ASSEMBLED -> PERSISTED: an  *)
(* extend_vocab call starts from the loaded session only, a                *)
(* save_checkpoint call starts only from a session whose extend_vocab      *)
(* call returned, and a persisted session takes no further call.           *)
C15_SessionOnlyAdvances ==
    [][/\ calls' > calls => (calls = 0 /\ saves = 0)
       /\ saves' > saves => (saves = 0 /\ Returned)]_vars

(* C16: a second extend_vocab call on the same session is rejected with an *)
(* error and not applied.                                                  *)
C16_SecondExtendRejected ==
    (Extended /\ calls >= 2) =>
        /\ last.ret.raised # "none"
        /\ heap = last.pre_heap
        /\ model = last.pre_model

(* C17: when source and target are one field, extend_vocab grows the       *)
(* encoder embedding, the decoder embedding and the projection by the same *)
(* added-token count and leaves each with as many rows as the shared       *)
(* vocabulary has tokens; when they are two fields, each side's embedding  *)
(* grows by the number of tokens added to its own side.                    *)
C17_SharedGrowTogether ==
    Returned =>
        IF vocab["src"] = vocab["tgt"]
        THEN LET size == VocabLen(heap[vocab["src"]])
             IN  /\ last.ret.count["enc"] = last.ret.count["dec"]
                 /\ last.ret.count["dec"] = last.ret.count["gen"]
                 /\ Len(model["enc"].weight) = size
                 /\ Len(model["dec"].weight) = size
                 /\ Len(model["gen"].weight) = size
        ELSE /\ last.ret.count["enc"] = Len(last.ret.added["src"])
             /\ last.ret.count["dec"] = Len(last.ret.added["tgt"])

(* C18: merging a field with a candidate list that holds exactly the       *)
(* field's own tokens returns an empty added-token list and leaves the     *)
(* field's itos and stoi as they were.                                     *)
C18_MergeWithItselfAddsNothing ==
    Extended =>
        \A f \in last.ret.merged :
            Range(last.new_vocab[f]) = Range(FieldBefore(f).itos) =>
                /\ last.ret.added[f] = <<>>
                /\ FieldAfter(f).itos = FieldBefore(f).itos
                /\ FieldAfter(f).stoi = FieldBefore(f).stoi

\* a field grown to three tokens by a first call, merged with itself
C18_Witness ==
    /\ Extended
    /\ "src" \in last.ret.merged
    /\ Len(FieldBefore("src").itos) = 3
    /\ last.new_vocab["src"] = FieldBefore("src").itos
    /\ last.ret.added["src"] = <<>>

----------------------------------------------------------------------------
(* What cmd() was given and returned *)

Called == train.op = "cmd"

\* some argument of the table is given but not needed for the command
\* type, or is needed, has default None and is not given
Offending ==
    \E i \in 1..Len(ONMT_TRAIN_ARGS) :
        LET arg == ONMT_TRAIN_ARGS[i]
            given == arg.key \in DOMAIN train.kwargs
            needed == train.command_type \subseteq arg.needed_for
        IN  \/ given /\ ~needed
            \/ needed /\ arg.default = None /\ ~given

RECURSIVE Flatten(_)
Flatten(seqs) == IF seqs = <<>> THEN <<>>
                 ELSE Head(seqs) \o Flatten(Tail(seqs))

\* "-key" and the given value or else the default, the empty string left
\* out, for the arguments needed for the command type, in table order
TableWords ==
    LET IsNeeded(arg) == train.command_type \subseteq arg.needed_for
        needed == SelectSeq(ONMT_TRAIN_ARGS, IsNeeded)
        Words(arg) ==
            LET value == IF arg.key \in DOMAIN train.kwargs
                         THEN train.kwargs[arg.key] ELSE arg.default
                word == IF value = None THEN "None" ELSE value.v
            IN  IF word = "" THEN <<"-" \o arg.key>>
                ELSE <<"-" \o arg.key, word>>
    IN  Flatten([i \in 1..Len(needed) |-> Words(needed[i])])

GpuWords == IF train.no_gpu THEN <<>> ELSE <<"-gpu_ranks", "0">>

WeightWords ==
    LET w == train.data_weights
    IN  IF Len(w) = 0 THEN <<>>
        ELSE <<"-data_ids", "main_set">>
             \o [i \in 1..(Len(w) - 1) |-> "additional_set_" \o ToString(i)]
             \o <<"-data_weights">>
             \o [i \in 1..Len(w) |-> ToString(w[i])]

(* C19: for every command type T, C, F and every set of given arguments,   *)
(* cmd() raises ValueError if an argument of ONMT_TRAIN_ARGS is given but  *)
(* not needed for the command type or a needed argument with default None  *)
(* is not given; otherwise it returns onmt_train followed, in table order, *)
(* by "-key" for exactly the needed arguments, each followed by the given  *)
(* value or else the default, the value left out when it is the empty      *)
(* string.                                                                 *)
C19_CmdRaisesOrListsNeeded ==
    Called =>
        IF Offending THEN train.ret.raised = "ValueError"
        ELSE /\ train.ret.raised = "none"
             /\ train.ret.command = <<"onmt_train">> \o TableWords

(* C19, amended: as above, and the returned list goes on, after the        *)
(* arguments of the table, with -gpu_ranks 0 unless no_gpu, and then, when *)
(* data_weights is not empty, with -data_ids, the names main_set,          *)
(* additional_set_1, ..., -data_weights and the weights.                   *)
C19_CmdListsNeededThenGpuAndWeights ==
    Called =>
        IF Offending THEN train.ret.raised = "ValueError"
        ELSE /\ train.ret.raised = "none"
             /\ train.ret.command =
                    <<"onmt_train">> \o TableWords \o GpuWords \o WeightWords

\* a fine-tuning command on GPU with two data sets, given a flag argument
\* it needs with the empty string as value
C19_Witness ==
    /\ Called
    /\ train.ret.raised = "none"
    /\ train.command_type = {"F"}
    /\ ~train.no_gpu
    /\ Len(train.data_weights) = 2
    /\ \E k \in DOMAIN train.kwargs : train.kwargs[k] = Str("")

(* C20: init_parameters assigns a value to every entry of every tensor     *)
(* extend_vocab creates, whatever param_init and param_init_glorot are: no *)
(* new entry is left with the contents of its allocation.                  *)
C20_EveryNewEntryAssigned ==
    Extended => last.ret.unassigned = {}

\* the field each layer is indexed by
FieldOf == [enc |-> "src", dec |-> "tgt", gen |-> "tgt"]

Rows(m, layer) == Len(m[layer].weight)

(* C21: a session loaded with embedding and projection row counts equal to *)
(* the sizes of their vocabulary fields keeps, through every sequence of   *)
(* extend_vocab calls with any vocabulary files, the added-token count     *)
(* each resize step computes at >= 0: in rxn.onmt_utils, where the count   *)
(* is the field size minus the row count, no layer ever has more rows than *)
(* its field has tokens and no resize fails on a negative count; in both   *)
(* modules no call leaves a layer with fewer rows than it had.             *)
C21_CountsNeverNegative ==
    /\ module = "rxn.onmt_utils" =>
          /\ \A layer \in DOMAIN FieldOf :
                VocabLen(heap[vocab[FieldOf[layer]]]) - Rows(model, layer) >= 0
          /\ last.ret.raised # "RuntimeError"
    /\ Extended =>
          \A layer \in DOMAIN FieldOf :
             /\ last.ret.count[layer] >= 0
             /\ Rows(model, layer) >= Rows(last.pre_model, layer)
             /\ Rows(model, layer) = Rows(last.pre_model, layer)
                                       + (IF layer \in last.ret.resized
                                          THEN last.ret.count[layer] ELSE 0)

\* a second call that grows the encoder by the token a first call merged
\* before it failed on the missing tgt field
C21_Witness ==
    /\ module = "rxn.onmt_utils"
    /\ Returned
    /\ calls = 2
    /\ last.ret.added["src"] = <<>>
    /\ last.ret.count["enc"] = 1
    /\ Rows(model, "enc") = 3

BuildAccepts(command_type, kwarg, value) ==
    _build_cmd(command_type, TRUE, <<>>,
               (kwarg :> value)
               @@ [k \in RequiredKeys(command_type) |-> Str("x")]).raised = "none"

(* C23: the two argument validators of OnmtTrainCommand agree: for every   *)
(* command type, key and value, is_valid_kwarg_value(key, value) returns   *)
(* True exactly when _build_cmd accepts the key given with that value and  *)
(* raises exactly when _build_cmd raises for it; save_to_config_cmd        *)
(* accepts the same sets of given arguments as cmd().                      *)
C23_ValidatorsAgree ==
    /\ train.op = "is_valid_kwarg_value" =>
          ((train.ret.raised = "none" /\ train.ret.value)
             <=> BuildAccepts(train.command_type, train.kwarg, train.value))
    /\ train.op = "save_to_config_cmd" =>
          ((train.ret.raised = "none")
             <=> _build_cmd(train.command_type, train.no_gpu,
                            train.data_weights, train.kwargs).raised = "none")

====
